---- MODULE Spec2Model ----
(***************************************************************************)
(* Model of the avatar worker (src/README.md, lines 296-745: the current   *)
(* version of the worker script).                                          *)
(*                                                                         *)
(* A JavaScript string is modelled as a sequence of Unicode code points    *)
(* (integers).  The worker keeps no state between requests; the state of   *)
(* the model is the position of one request in handleRequest, and, for the *)
(* pure functions, the position of one call.                               *)
(***************************************************************************)
EXTENDS Integers, Sequences, FiniteSets, TLC

VARIABLES env, pc, request, options, response, dec, plain, call

vars == <<env, pc, request, options, response, dec, plain, call>>

None == "none"

\* An optional value: what URLSearchParams.get returns, null when absent.
Absent == [has |-> FALSE, value |-> <<>>]
Some(v) == [has |-> TRUE, value |-> v]
\* The same for a parameter whose value the model keeps as a TLA+ string.
AbsentName == [has |-> FALSE, value |-> ""]

(***************************************************************************)
(* Bounds of the model.                                                    *)
(***************************************************************************)
MaxLabelLen == 4
MaxPlainLen == 3
MaxTokens == 2
MaxSLen == 3
MaxStrLen == 4
MaxCount == 2
MaxXmlLen == 3

(***************************************************************************)
(* Sequence helpers.                                                       *)
(***************************************************************************)
RECURSIVE SeqsUpTo(_, _)
SeqsUpTo(S, n) ==
  IF n = 0 THEN {<<>>}
  ELSE LET shorter == SeqsUpTo(S, n - 1)
       IN  shorter \cup {Append(s, c) : s \in {t \in shorter : Len(t) = n - 1}, c \in S}

RECURSIVE Flatten(_)
Flatten(ss) == IF ss = <<>> THEN <<>> ELSE Head(ss) \o Flatten(Tail(ss))

Min(a, b) == IF a < b THEN a ELSE b
Max(a, b) == IF a > b THEN a ELSE b

\* String.prototype.slice(from) on a code point sequence (0-based from).
Slice(s, from) == SubSeq(s, from + 1, Len(s))

\* String.prototype.startsWith
StartsWith(s, p) == Len(s) >= Len(p) /\ SubSeq(s, 1, Len(p)) = p

(***************************************************************************)
(* Configuration                                                           *)
(***************************************************************************)
\* "/avatar/"
BASEPATH == <<47, 97, 118, 97, 116, 97, 114, 47>>

\* DEFAULTS
DefaultSize == 60
\* "A"
DefaultText == <<65>>
MaxTextLength == 2
\* fontSizeRatio 0.9 as the fraction FontRatioNum / FontRatioDen
FontRatioNum == 9
FontRatioDen == 10

\* CACHE
CacheNone == "no-cache"
CacheLongTerm == "public, max-age=31536000, immutable"

\* PUNYCODE
Base == 36
TMin == 1
TMax == 26
Skew == 38
Damp == 700
InitialBias == 72
InitialN == 128
\* "-"
Delimiter == 45
\* "xn--"
Prefix == <<120, 110, 45, 45>>

\* The largest code point String.fromCodePoint accepts.
MaxCodePoint == 1114111

(***************************************************************************)
(* Punycode Decoder                                                        *)
(***************************************************************************)
\* The value punycodeDigitToBasic returns for a code point that is no digit.
Infinity == 1000000

\* punycodeDigitToBasic that reads every other code point as the digit 0.
punycodeDigitToBasic_Lenient(codePoint) ==
  IF codePoint >= 48 /\ codePoint <= 57 THEN codePoint - 48 + 26
  ELSE IF codePoint >= 65 /\ codePoint <= 90 THEN codePoint - 65
  ELSE IF codePoint >= 97 /\ codePoint <= 122 THEN codePoint - 97
  ELSE 0

punycodeDigitToBasic(codePoint) ==
  IF codePoint >= 48 /\ codePoint <= 57 THEN codePoint - 48 + 26
  ELSE IF codePoint >= 65 /\ codePoint <= 90 THEN codePoint - 65
  ELSE IF codePoint >= 97 /\ codePoint <= 122 THEN codePoint - 97
  ELSE Infinity

\* The while loop of punycodAdapt: the pair <<delta, k>> it ends with.
RECURSIVE AdaptLoop(_, _)
AdaptLoop(delta, k) ==
  IF delta > (((Base - TMin) * TMax) \div 2)
  THEN AdaptLoop(delta \div (Base - TMin), k + Base)
  ELSE <<delta, k>>

\* delta is in 0 .. 2^31-1 in every call the model makes, where delta >> 1
\* is the floor of delta / 2.
\* punycodAdapt without delta += floor(delta / numPoints).
punycodAdapt_NoNumPoints(delta, numPoints, firstTime) ==
  LET d1 == IF firstTime THEN delta \div Damp ELSE delta \div 2
      r  == AdaptLoop(d1, 0)
  IN  r[2] + (((Base - TMin + 1) * r[1]) \div (r[1] + Skew))

\* punycodAdapt that halves on the first adaptation too.
punycodAdapt_NoDamp(delta, numPoints, firstTime) ==
  LET d1 == delta \div 2
      d2 == d1 + (d1 \div numPoints)
      r  == AdaptLoop(d2, 0)
  IN  r[2] + (((Base - TMin + 1) * r[1]) \div (r[1] + Skew))

punycodAdapt(delta, numPoints, firstTime) ==
  LET d1 == IF firstTime THEN delta \div Damp ELSE delta \div 2
      d2 == d1 + (d1 \div numPoints)
      r  == AdaptLoop(d2, 0)
  IN  r[2] + (((Base - TMin + 1) * r[1]) \div (r[1] + Skew))

\* input.indexOf("-") in place of lastIndexOf.
LastIndexOf_First(input, c) ==
  LET hits == {j \in 0 .. Len(input) - 1 : input[j + 1] = c}
  IN  IF hits = {} THEN -1 ELSE CHOOSE j \in hits : \A h \in hits : j <= h

\* input.lastIndexOf("-"), 0-based, -1 when there is none.
LastIndexOf(input, c) ==
  LET hits == {j \in 0 .. Len(input) - 1 : input[j + 1] = c}
  IN  IF hits = {} THEN -1 ELSE CHOOSE j \in hits : \A h \in hits : h <= j

\* splice(at, 1, x): the element at the index is replaced.
Splice_Replace(output, at, x) ==
  SubSeq(output, 1, at) \o <<x>> \o SubSeq(output, at + 2, Len(output))

\* Array.prototype.splice(at, 0, x): insert x before the 0-based index at.
Splice(output, at, x) ==
  SubSeq(output, 1, at) \o <<x>> \o SubSeq(output, at + 1, Len(output))

IsHighSurrogate(c) == c >= 55296 /\ c <= 56319
IsLowSurrogate(c) == c >= 56320 /\ c <= 57343

\* Array.prototype.join(""): the elements are concatenated as UTF-16, so a
\* high surrogate followed by a low surrogate reads as one code point.
RECURSIVE Join(_)
Join(output) ==
  IF Len(output) < 2 THEN output
  ELSE IF IsHighSurrogate(output[1]) /\ IsLowSurrogate(output[2])
       THEN <<65536 + (output[1] - 55296) * 1024 + (output[2] - 56320)>>
            \o Join(SubSeq(output, 3, Len(output)))
       ELSE <<output[1]>> \o Join(Tail(output))

\* The state of one call of punycodeDecode before its first statement.
DecodeEntry(input) ==
  [input |-> input, status |-> "start", output |-> <<>>, i |-> 0,
   n |-> InitialN, bias |-> InitialBias, index |-> 0, basic |-> 0,
   error |-> None, result |-> <<>>, inserted |-> <<>>]

\* Lines 406-425: split at the last delimiter and copy the basic portion.
CopyBasic(d) ==
  LET found == LastIndexOf(d.input, Delimiter)
      basic == IF found < 0 THEN 0 ELSE found
      bad == {j \in 0 .. basic - 1 : d.input[j + 1] >= 128}
  IN  IF bad # {}
      THEN [d EXCEPT !.status = "error", !.basic = basic,
                     !.output = SubSeq(d.input, 1, CHOOSE j \in bad : \A h \in bad : j <= h),
                     !.error = "non-ASCII character in basic portion"]
      ELSE [d EXCEPT !.status = "loop", !.basic = basic,
                     !.output = SubSeq(d.input, 1, basic),
                     !.index = IF basic > 0 THEN basic + 1 ELSE 0]

\* Lines 433-456: decode one variable-length integer starting at index.
RECURSIVE DecodeDigits(_, _, _, _, _, _)
DecodeDigits(input, index, i, w, k, bias) ==
  IF index >= Len(input)
  THEN [ok |-> FALSE, error |-> "unexpected end of input", i |-> i, index |-> index]
  ELSE LET digit == punycodeDigitToBasic(input[index + 1])
           t == IF k <= bias THEN TMin
                ELSE IF k >= bias + TMax THEN TMax
                ELSE k - bias
       IN  IF digit = Infinity
           THEN [ok |-> FALSE, error |-> "invalid digit", i |-> i, index |-> index + 1]
           ELSE IF digit < t
                THEN [ok |-> TRUE, error |-> None, i |-> i + digit * w, index |-> index + 1]
                ELSE DecodeDigits(input, index + 1, i + digit * w, w * (Base - t),
                                  k + Base, bias)

\* Lines 428-464: one iteration of the outer loop.  String.fromCodePoint
\* throws a RangeError for a code point above 0x10FFFF.
DecodeInsertion(d) ==
  LET oldi == d.i
      r == DecodeDigits(d.input, d.index, d.i, 1, Base, d.bias)
  IN  IF ~r.ok
      THEN [d EXCEPT !.status = "error", !.error = r.error, !.index = r.index]
      ELSE LET outputLength == Len(d.output) + 1
               bias == punycodAdapt(r.i - oldi, outputLength, oldi = 0)
               n == d.n + (r.i \div outputLength)
               i == r.i % outputLength
           IN  IF n > MaxCodePoint
               THEN [d EXCEPT !.status = "error", !.error = "invalid code point",
                              !.bias = bias, !.n = n, !.i = i + 1, !.index = r.index]
               ELSE [d EXCEPT !.output = Splice(d.output, i, n), !.bias = bias,
                              !.n = n, !.i = i + 1, !.index = r.index,
                              !.inserted = Append(d.inserted,
                                                  [at |-> i, n |-> n, len |-> Len(d.output),
                                                   delta |-> r.i - oldi,
                                                   first |-> (oldi = 0)])]

\* Line 467.
DecodeReturn(d) == [d EXCEPT !.status = "done", !.result = Join(d.output)]

DecodeStep(d) ==
  IF d.status = "start" THEN CopyBasic(d)
  ELSE IF d.index < Len(d.input) THEN DecodeInsertion(d)
  ELSE DecodeReturn(d)

RECURSIVE RunDecode(_)
RunDecode(d) == IF d.status \in {"done", "error"} THEN d ELSE RunDecode(DecodeStep(d))

\* punycodeDecode(input): status "done" with the result, or "error" (a throw).
punycodeDecode(input) == RunDecode(DecodeEntry(input))

\* String.prototype.toLowerCase on the ASCII letters.
ToLowerCase(str) ==
  [j \in 1 .. Len(str) |-> IF str[j] >= 65 /\ str[j] <= 90 THEN str[j] + 32 ELSE str[j]]

isPunycode(str) == StartsWith(ToLowerCase(str), Prefix)

\* decodePunycodeIfNeeded returning what was decoded before the failure.
decodePunycodeIfNeeded_Partial(str) ==
  IF ~isPunycode(str) THEN str
  ELSE Join(punycodeDecode(Slice(str, Len(Prefix))).output)

decodePunycodeIfNeeded(str) ==
  IF ~isPunycode(str) THEN str
  ELSE LET d == punycodeDecode(Slice(str, Len(Prefix)))
       IN  IF d.status = "done" THEN d.result ELSE str

(***************************************************************************)
(* Text Utilities                                                          *)
(***************************************************************************)
\* The grapheme cluster break class of a code point (Unicode UAX #29), for
\* the classes the break rules below need.
GraphemeClass(c) ==
  IF c = 13 THEN "CR"
  ELSE IF c = 10 THEN "LF"
  ELSE IF c < 32 \/ (c >= 127 /\ c <= 159) \/ (c >= 55296 /\ c <= 57343) THEN "Control"
  ELSE IF c = 8205 THEN "ZWJ"
  ELSE IF (c >= 768 /\ c <= 879) \/ (c >= 65024 /\ c <= 65039) \/ c = 8204
          \/ (c >= 127995 /\ c <= 127999) THEN "Extend"
  ELSE IF c >= 127462 /\ c <= 127487 THEN "RI"
  ELSE IF (c >= 127744 /\ c <= 129791) \/ (c >= 9728 /\ c <= 10175) THEN "ExtPict"
  ELSE "Other"

\* The number of Regional Indicators that end at position j of str.
RECURSIVE RIRun(_, _)
RIRun(str, j) ==
  IF j >= 1 /\ GraphemeClass(str[j]) = "RI" THEN 1 + RIRun(str, j - 1) ELSE 0

\* str[j] is an Extended_Pictographic followed by Extend* up to position j.
RECURSIVE PictographicRun(_, _)
PictographicRun(str, j) ==
  IF j < 1 THEN FALSE
  ELSE IF GraphemeClass(str[j]) = "ExtPict" THEN TRUE
  ELSE IF GraphemeClass(str[j]) = "Extend" THEN PictographicRun(str, j - 1)
  ELSE FALSE

\* Intl.Segmenter, granularity "grapheme": there is a cluster boundary
\* between str[j] and str[j+1] (rules GB3-GB5, GB9, GB11-GB13, GB999).
BreakAfter(str, j) ==
  LET a == GraphemeClass(str[j])
      b == GraphemeClass(str[j + 1])
  IN  IF a = "CR" /\ b = "LF" THEN FALSE
      ELSE IF a \in {"CR", "LF", "Control"} \/ b \in {"CR", "LF", "Control"} THEN TRUE
      ELSE IF b \in {"Extend", "ZWJ"} THEN FALSE
      ELSE IF a = "ZWJ" /\ b = "ExtPict" /\ PictographicRun(str, j - 1) THEN FALSE
      ELSE IF a = "RI" /\ b = "RI" /\ RIRun(str, j) % 2 = 1 THEN FALSE
      ELSE TRUE

\* [...segmenter.segment(str)].map(s => s.segment)
RECURSIVE SegmentsFrom(_, _, _)
SegmentsFrom(str, start, j) ==
  IF start > Len(str) THEN <<>>
  ELSE IF j = Len(str) THEN <<SubSeq(str, start, j)>>
  ELSE IF BreakAfter(str, j) THEN <<SubSeq(str, start, j)>> \o SegmentsFrom(str, j + 1, j + 1)
  ELSE SegmentsFrom(str, start, j + 1)

Segment(str) == SegmentsFrom(str, 1, 1)

\* [...str]: the code points of str, one string each.
Spread(str) == [j \in 1 .. Len(str) |-> <<str[j]>>]

\* Array.prototype.slice(0, count) for count >= 0.
SliceTo(arr, count) == SubSeq(arr, 1, Min(count, Len(arr)))

\* getFirstGraphemes that always takes the fallback.
getFirstGraphemes_CodePoints(str, count) == Flatten(SliceTo(Spread(str), count))

getFirstGraphemes(str, count) ==
  IF env.segmenter THEN Flatten(SliceTo(Segment(str), count))
  ELSE Flatten(SliceTo(Spread(str), count))

countGraphemes(str) ==
  IF env.segmenter THEN Len(Segment(str)) ELSE Len(Spread(str))

\* The replacement of one character by escapeXml.
\* The replacement without the apostrophe.
XmlEntity_NoApos(c) ==
  IF c = 38 THEN <<38, 97, 109, 112, 59>>
  ELSE IF c = 60 THEN <<38, 108, 116, 59>>
  ELSE IF c = 62 THEN <<38, 103, 116, 59>>
  ELSE IF c = 34 THEN <<38, 113, 117, 111, 116, 59>>
  ELSE <<c>>

XmlEntity(c) ==
  IF c = 38 THEN <<38, 97, 109, 112, 59>>
  ELSE IF c = 60 THEN <<38, 108, 116, 59>>
  ELSE IF c = 62 THEN <<38, 103, 116, 59>>
  ELSE IF c = 34 THEN <<38, 113, 117, 111, 116, 59>>
  ELSE IF c = 39 THEN <<38, 97, 112, 111, 115, 59>>
  ELSE <<c>>

escapeXml(str) == Flatten([j \in 1 .. Len(str) |-> XmlEntity(str[j])])

(***************************************************************************)
(* Library functions the request handling calls.                           *)
(***************************************************************************)
\* The value of a hexadecimal digit, -1 for any other code point.
HexValue(c) ==
  IF c >= 48 /\ c <= 57 THEN c - 48
  ELSE IF c >= 65 /\ c <= 70 THEN c - 55
  ELSE IF c >= 97 /\ c <= 102 THEN c - 87
  ELSE -1

\* The byte of the escape "%XY" at position k (1-based) of str, -1 if the
\* three characters are not such an escape.
EscapeAt(str, k) ==
  IF k + 2 > Len(str) \/ str[k] # 37 THEN -1
  ELSE IF HexValue(str[k + 1]) < 0 \/ HexValue(str[k + 2]) < 0 THEN -1
  ELSE 16 * HexValue(str[k + 1]) + HexValue(str[k + 2])

\* The number of bytes of the UTF-8 sequence the byte b leads, 0 for a
\* byte that leads none.
Utf8Length(b) ==
  IF b < 128 THEN 1
  ELSE IF b >= 192 /\ b <= 223 THEN 2
  ELSE IF b >= 224 /\ b <= 239 THEN 3
  ELSE IF b >= 240 /\ b <= 247 THEN 4
  ELSE 0

\* The continuation bytes of the n-byte sequence whose lead escape is at k,
\* <<>> followed by -1 entries where an escape or continuation is missing.
Continuations(str, k, n) ==
  [m \in 1 .. n - 1 |->
     LET b == EscapeAt(str, k + 3 * m)
     IN  IF b >= 128 /\ b <= 191 THEN b - 128 ELSE -1]

RECURSIVE Utf8Value(_, _)
Utf8Value(acc, cont) ==
  IF cont = <<>> THEN acc ELSE Utf8Value(acc * 64 + Head(cont), Tail(cont))

\* The least code point an n-byte sequence may encode.
Utf8Least(n) == IF n = 2 THEN 128 ELSE IF n = 3 THEN 2048 ELSE 65536

\* decodeURIComponent from position k on: the decoded code points, or
\* <<"URIError">> in place of them when a URIError is thrown.
RECURSIVE DecodeFrom(_, _)
DecodeFrom(str, k) ==
  IF k > Len(str) THEN [ok |-> TRUE, value |-> <<>>]
  ELSE IF str[k] # 37
  THEN LET rest == DecodeFrom(str, k + 1)
       IN  [ok |-> rest.ok, value |-> <<str[k]>> \o rest.value]
  ELSE LET b == EscapeAt(str, k)
           n == IF b < 0 THEN 0 ELSE Utf8Length(b)
       IN  IF n = 0 THEN [ok |-> FALSE, value |-> <<>>]
           ELSE LET cont == Continuations(str, k, n)
                    lead == IF n = 1 THEN b
                            ELSE IF n = 2 THEN b - 192
                            ELSE IF n = 3 THEN b - 224
                            ELSE b - 240
                    cp == Utf8Value(lead, cont)
                    bad == (\E m \in 1 .. n - 1 : cont[m] < 0)
                           \/ (n > 1 /\ cp < Utf8Least(n))
                           \/ (cp >= 55296 /\ cp <= 57343)
                           \/ cp > MaxCodePoint
                    rest == DecodeFrom(str, k + 3 * n)
                IN  IF bad THEN [ok |-> FALSE, value |-> <<>>]
                    ELSE [ok |-> rest.ok, value |-> <<cp>> \o rest.value]

decodeURIComponent(str) == DecodeFrom(str, 1)

\* The value parseInt returns for a string with no leading integer; a
\* number v is [nan |-> FALSE, value |-> v].
NaN == [nan |-> TRUE, value |-> 0]
Number(v) == [nan |-> FALSE, value |-> v]

IsWhiteSpace(c) ==
  c \in {9, 10, 11, 12, 13, 32, 160, 5760, 8232, 8233, 8239, 8287, 12288, 65279}
  \/ (c >= 8192 /\ c <= 8202)
IsDigit(c) == c >= 48 /\ c <= 57

RECURSIVE SkipWhiteSpace(_)
SkipWhiteSpace(str) ==
  IF str # <<>> /\ IsWhiteSpace(Head(str)) THEN SkipWhiteSpace(Tail(str)) ELSE str

\* The value of the longest prefix of decimal digits of str, after acc.
RECURSIVE DigitsValue(_, _)
DigitsValue(str, acc) ==
  IF str # <<>> /\ IsDigit(Head(str))
  THEN DigitsValue(Tail(str), 10 * acc + (Head(str) - 48))
  ELSE acc

\* parseInt(string, 10).  The argument is what searchParams.get returns:
\* Some(value), or Absent for null, which parseInt reads as "null".
ParseInt(string) ==
  LET str == SkipWhiteSpace(IF string.has THEN string.value ELSE <<110, 117, 108, 108>>)
      negative == str # <<>> /\ Head(str) = 45
      signed == str # <<>> /\ Head(str) \in {43, 45}
      digits == IF signed THEN Tail(str) ELSE str
  IN  IF digits = <<>> \/ ~IsDigit(Head(digits)) THEN NaN
      ELSE IF negative THEN Number(0 - DigitsValue(digits, 0))
      ELSE Number(DigitsValue(digits, 0))

\* A JavaScript number is falsy when it is NaN or 0.
Truthy(v) == ~v.nan /\ v.value # 0

\* The properties every object literal inherits from Object.prototype, with
\* the string a template literal renders for each.
ObjectPrototype ==
  [constructor |-> "function Object() { [native code] }",
   toString |-> "function toString() { [native code] }",
   valueOf |-> "function valueOf() { [native code] }",
   hasOwnProperty |-> "function hasOwnProperty() { [native code] }",
   __proto__ |-> "[object Object]"]

(***************************************************************************)
(* SVG Generation                                                          *)
(***************************************************************************)
StyleCircle == "style=\"border-radius: 50%;\""
StyleRounded == "style=\"border-radius: 10px;\""

\* styles[shape] || "": the own properties of styles, then the inherited.
\* The property key of null is "null".
getShapeStyle(shape) ==
  LET key == IF shape.has THEN shape.value ELSE "null"
  IN  IF key = "circle" THEN StyleCircle
      ELSE IF key = "rounded" THEN StyleRounded
      ELSE IF key \in DOMAIN ObjectPrototype THEN ObjectPrototype[key]
      ELSE ""

\* The font size as the fraction num / den.
calculateFontSize(avatarSize, text) ==
  [num |-> avatarSize * FontRatioNum,
   den |-> FontRatioDen * Max(countGraphemes(text), 1)]

\* The parts of the markup that depend on the arguments.
generateSvgAvatar(size, text, shapeStyle, color1, color2) ==
  [shapeStyle |-> shapeStyle, size |-> size, color1 |-> color1, color2 |-> color2,
   fontSize |-> calculateFontSize(size, text), textNode |-> escapeXml(text)]

(***************************************************************************)
(* Request Handling                                                        *)
(***************************************************************************)
\* The text without the default.
TextOrDefault_NoDefault(avatarText) == avatarText

\* avatarText || DEFAULTS.text: the empty string is falsy.
TextOrDefault(avatarText) == IF avatarText # <<>> THEN avatarText ELSE DefaultText

\* parseAvatarOptions(url): the options, or thrown = TRUE when
\* decodeURIComponent throws.
parseAvatarOptions(url) ==
  LET path == url.pathname
      rawText == Slice(path, Len(BASEPATH))
      decodedText == decodeURIComponent(rawText)
      unicodeText == decodePunycodeIfNeeded(decodedText.value)
      avatarText == IF StartsWith(path, BASEPATH)
                    THEN getFirstGraphemes(unicodeText, MaxTextLength)
                    ELSE DefaultText
      parsed == ParseInt(url.s)
      size == IF Truthy(parsed) THEN parsed.value ELSE DefaultSize
  IN  IF StartsWith(path, BASEPATH) /\ ~decodedText.ok
      THEN [thrown |-> TRUE, size |-> 0, text |-> <<>>, shape |-> AbsentName,
            isRootPath |-> FALSE]
      ELSE [thrown |-> FALSE,
            size |-> Max(1, Min(size, 1000)),
            text |-> TextOrDefault(avatarText),
            shape |-> url.shape,
            isRootPath |-> (path = <<47>>)]

\* createSvgResponse with the two cache values exchanged.
createSvgResponse_Inverted(svgContent, shouldCache) ==
  [outcome |-> "response", body |-> svgContent,
   contentType |-> "image/svg+xml; charset=utf-8",
   cacheControl |-> IF shouldCache THEN CacheNone ELSE CacheLongTerm]

createSvgResponse(svgContent, shouldCache) ==
  [outcome |-> "response", body |-> svgContent,
   contentType |-> "image/svg+xml; charset=utf-8",
   cacheControl |-> IF shouldCache THEN CacheLongTerm ELSE CacheNone]

\* Math.random() is modelled by the choice of each colour among Colors.
Colors == {"#000000", "#a3f2c1"}

\* Lines 720-733 of handleRequest: the response for the parsed options and
\* the colours getGradientColors draws, or the outcome "exception" when
\* parseAvatarOptions has thrown and the promise handed to respondWith
\* rejects.
RespondWith(opts, color1, color2) ==
  LET svgAvatar == generateSvgAvatar(opts.size, opts.text, getShapeStyle(opts.shape),
                                     color1, color2)
      shouldCache == ~opts.isRootPath
  IN  IF opts.thrown
      THEN [outcome |-> "exception", body |-> None, contentType |-> None,
            cacheControl |-> None]
      ELSE createSvgResponse(svgAvatar, shouldCache)

handleRequest(url, color1, color2) ==
  RespondWith(parseAvatarOptions(url), color1, color2)

(***************************************************************************)
(* The requests of the model.                                              *)
(***************************************************************************)
\* a 9 - and e-acute: digits of value 0 and 35, the delimiter (no digit
\* where it is read as one) and a character that is not ASCII.
LabelChars == {97, 57, 45, 233}

\* 9999z (a code point above 0x10FFFF), nxasmq5b, wgv71a, e77h
ScenarioLabels ==
  {<<57, 57, 57, 57, 122>>,
   <<110, 120, 97, 115, 109, 113, 53, 98>>,
   <<119, 103, 118, 55, 49, 97>>,
   <<101, 55, 55, 104>>}

Labels == SeqsUpTo(LabelChars, MaxLabelLen) \cup ScenarioLabels

\* xn--, XN-- and the near miss xn-
PrefixForms == {<<120, 110, 45, 45>>, <<88, 78, 45, 45>>, <<120, 110, 45>>}

\* The pieces of a path text: J e & ' as they are, the escapes %XY with X
\* and Y among C 8 1 3, and a % that starts no escape.
PlainChars == {74, 101, 38, 39}
HexChars == {67, 56, 49, 51}
Tokens ==
  {<<c>> : c \in PlainChars} \cup {<<37, x, y>> : x \in HexChars, y \in HexChars}
  \cup {<<37>>}

TokenTexts == {Flatten(ts) : ts \in SeqsUpTo(Tokens, MaxTokens)}

\* JD, AB, a grinning face, a check mark, man ZWJ woman, the flag US,
\* e with two combining marks and xJ, an overlong and a surrogate escape,
\* %78n--9a and %78n--9 (xn--9a and xn--9 with the x escaped).
ScenarioTexts ==
  {<<74, 68>>, <<65, 66>>,
   <<37, 55, 56, 110, 45, 45, 57, 97>>, <<37, 55, 56, 110, 45, 45, 57>>,
   <<37, 70, 48, 37, 57, 70, 37, 57, 56, 37, 56, 48>>,
   <<37, 69, 50, 37, 57, 67, 37, 57, 51>>,
   <<37, 70, 48, 37, 57, 70, 37, 57, 49, 37, 65, 56, 37, 69, 50, 37, 56, 48, 37, 56, 68,
     37, 70, 48, 37, 57, 70, 37, 57, 49, 37, 65, 57, 74>>,
   <<37, 70, 48, 37, 57, 70, 37, 56, 55, 37, 66, 65, 37, 70, 48, 37, 57, 70, 37, 56, 55,
     37, 66, 56, 74>>,
   <<101, 37, 67, 67, 37, 56, 49, 37, 67, 67, 37, 56, 56, 120, 74>>,
   <<37, 69, 48, 37, 56, 48, 37, 56, 48>>,
   <<37, 69, 68, 37, 65, 48, 37, 56, 48>>}

RawTexts ==
  TokenTexts \cup ScenarioTexts \cup {p \o l : p \in PrefixForms, l \in Labels}

\* "/", "/avatar", the texts under "/avatar/" and the one-piece texts under "/".
Paths ==
  {<<47>>, <<47, 97, 118, 97, 116, 97, 114>>}
  \cup {BASEPATH \o t : t \in RawTexts}
  \cup {<<47>> \o t : t \in Tokens}

\* Values of the s parameter: absent, the strings over - 0 5 x, and
\* 9999, 1000, 1001, 80, 120, " 7", "+7", "1e3".
SChars == {45, 48, 53, 120}
ScenarioSizes ==
  {<<57, 57, 57, 57>>, <<49, 48, 48, 48>>, <<49, 48, 48, 49>>, <<56, 48>>, <<49, 50, 48>>,
   <<32, 55>>, <<43, 55>>, <<49, 101, 51>>}
SValues ==
  {Absent} \cup {Some(v) : v \in SeqsUpTo(SChars, MaxSLen) \cup ScenarioSizes}

\* Values of the shape parameter.
ShapeNames ==
  {"circle", "rounded", "square", "Circle", "", "null", "constructor", "toString",
   "__proto__"}
ShapeValues == {AbsentName} \cup {Some(v) : v \in ShapeNames}

\* "/" and "/avatar/JD"
QueryPaths == {<<47>>, BASEPATH \o <<74, 68>>}

\* Every path without a query, and every query on the paths of QueryPaths.
Requests ==
  {[pathname |-> p, s |-> Absent, shape |-> AbsentName] : p \in Paths}
  \cup {[pathname |-> p, s |-> s, shape |-> sh] :
          p \in QueryPaths, s \in SValues, sh \in ShapeValues}
  \cup {[pathname |-> BASEPATH \o <<65, 66>>, s |-> Some(<<49, 50, 48>>),
         shape |-> Some("circle")],
        [pathname |-> BASEPATH \o <<120, 110, 45, 45, 110, 120, 97, 115, 109, 113, 53, 98>>,
         s |-> Some(<<56, 48>>), shape |-> AbsentName]}

Unused == [status |-> "unused"]

\* The request variables before a request is handled.
IdleRequest == [pathname |-> <<47>>, s |-> Absent, shape |-> AbsentName]
IdleOptions ==
  [thrown |-> FALSE, size |-> DefaultSize, text |-> DefaultText,
   shape |-> AbsentName, isRootPath |-> FALSE]
IdleResponse ==
  [outcome |-> "pending", body |-> None, contentType |-> None, cacheControl |-> None]

(***************************************************************************)
(* Spec: one request through handleRequest.                                *)
(***************************************************************************)
Init ==
  /\ env \in [segmenter : BOOLEAN]
  /\ pc = "received"
  /\ request \in Requests
  /\ options = IdleOptions
  /\ response = IdleResponse
  /\ dec = Unused
  /\ plain = Absent
  /\ call = Unused

\* handleRequest(request): options' and response' are the options and
\* the response of handleRequest(request, color1, color2).
HandleRequest ==
  /\ pc = "received"
  /\ LET opts == parseAvatarOptions(request)
     IN  /\ options' = opts
         /\ pc' = IF opts.thrown THEN "failed" ELSE "responded"
         /\ \E color1 \in Colors, color2 \in Colors :
              response' = RespondWith(opts, color1, color2)
  /\ UNCHANGED <<env, request, dec, plain, call>>

Next == HandleRequest

Spec == Init /\ [][Next]_vars

(***************************************************************************)
(* A reference encoder (RFC 3492, section 6.3), for the round trip.        *)
(***************************************************************************)
RECURSIVE RefAdaptLoop(_, _)
RefAdaptLoop(delta, k) ==
  IF delta > 455 THEN RefAdaptLoop(delta \div 35, k + 36) ELSE <<delta, k>>

RefAdapt(delta, numpoints, firsttime) ==
  LET d1 == IF firsttime THEN delta \div 700 ELSE delta \div 2
      r == RefAdaptLoop(d1 + (d1 \div numpoints), 0)
  IN  r[2] + ((36 * r[1]) \div (r[1] + 38))

RefDigit(d) == IF d < 26 THEN 97 + d ELSE 22 + d

RefThreshold(k, bias) ==
  IF k <= bias THEN 1 ELSE IF k >= bias + 26 THEN 26 ELSE k - bias

\* The digits of the generalized variable-length integer q.
RECURSIVE RefVarInt(_, _, _)
RefVarInt(q, k, bias) ==
  LET t == RefThreshold(k, bias)
  IN  IF q < t THEN <<RefDigit(q)>>
      ELSE <<RefDigit(t + ((q - t) % (36 - t)))>>
           \o RefVarInt((q - t) \div (36 - t), k + 36, bias)

\* One pass over x for the code point n.
RECURSIVE RefPass(_, _, _, _, _)
RefPass(x, j, n, b, st) ==
  IF j > Len(x) THEN st
  ELSE IF x[j] < n THEN RefPass(x, j + 1, n, b, [st EXCEPT !.delta = @ + 1])
  ELSE IF x[j] = n
       THEN RefPass(x, j + 1, n, b,
                    [delta |-> 0, h |-> st.h + 1,
                     bias |-> RefAdapt(st.delta, st.h + 1, st.h = b),
                     out |-> st.out \o RefVarInt(st.delta, 36, st.bias)])
       ELSE RefPass(x, j + 1, n, b, st)

RECURSIVE RefLoop(_, _, _, _)
RefLoop(x, n, b, st) ==
  IF st.h >= Len(x) THEN st.out
  ELSE LET rest == {c \in {x[j] : j \in 1 .. Len(x)} : c >= n}
           m == CHOOSE c \in rest : \A e \in rest : c <= e
           after == RefPass(x, 1, m, b, [st EXCEPT !.delta = @ + (m - n) * (st.h + 1)])
       IN  RefLoop(x, m + 1, b, [after EXCEPT !.delta = @ + 1])

RefEncode(x) ==
  LET basic == SelectSeq(x, LAMBDA c : c < 128)
      b == Len(basic)
  IN  RefLoop(x, 128, b,
              [delta |-> 0, h |-> b, bias |-> 72,
               out |-> IF b > 0 THEN Append(basic, 45) ELSE basic])

(***************************************************************************)
(* SpecDecode: one call of punycodeDecode, one loop iteration a step.      *)
(***************************************************************************)
\* a z 9 - _ and e-acute: digits of value 0, 25 and 35, the delimiter, a
\* character that is no digit and a character that is not ASCII.
DecodeChars == {97, 122, 57, 45, 95, 233}

DecodeLabels == SeqsUpTo(DecodeChars, MaxLabelLen) \cup ScenarioLabels

\* a - e-acute, the two ideographs U+65E5 U+672C and U+1F600
PlainAlphabet == {97, 45, 233, 26085, 26412, 128512}

PlainStrings == SeqsUpTo(PlainAlphabet, MaxPlainLen)

InitDecode ==
  /\ env = [segmenter |-> TRUE]
  /\ pc = "idle"
  /\ request = IdleRequest
  /\ options = IdleOptions
  /\ response = IdleResponse
  /\ call = Unused
  /\ \/ /\ plain = Absent
        /\ \E l \in DecodeLabels : dec = DecodeEntry(l)
     \/ \E x \in PlainStrings :
          /\ plain = Some(x)
          /\ dec = DecodeEntry(RefEncode(x))

DecodeCopyBasic ==
  /\ dec.status = "start"
  /\ dec' = CopyBasic(dec)
  /\ UNCHANGED <<env, pc, request, options, response, plain, call>>

DecodeLoop ==
  /\ dec.status = "loop"
  /\ dec.index < Len(dec.input)
  /\ dec' = DecodeInsertion(dec)
  /\ UNCHANGED <<env, pc, request, options, response, plain, call>>

DecodeFinish ==
  /\ dec.status = "loop"
  /\ dec.index >= Len(dec.input)
  /\ dec' = DecodeReturn(dec)
  /\ UNCHANGED <<env, pc, request, options, response, plain, call>>

NextDecode == DecodeCopyBasic \/ DecodeLoop \/ DecodeFinish

SpecDecode == InitDecode /\ [][NextDecode]_vars

(***************************************************************************)
(* SpecGraphemes: one call of getFirstGraphemes.                           *)
(***************************************************************************)
\* a, U+0301 (combining), U+200D (ZWJ), U+1F600, U+1F1FA (regional
\* indicator) and CR
GraphemeChars == {97, 769, 8205, 128512, 127482, 13}

GraphemeStrings == SeqsUpTo(GraphemeChars, MaxStrLen)

InitGraphemes ==
  /\ env \in [segmenter : BOOLEAN]
  /\ pc = "idle"
  /\ request = IdleRequest
  /\ options = IdleOptions
  /\ response = IdleResponse
  /\ dec = Unused
  /\ plain = Absent
  /\ \E str \in GraphemeStrings, count \in 0 .. MaxCount :
       call = [status |-> "called", str |-> str, count |-> count, result |-> <<>>]

GetFirstGraphemes ==
  /\ call.status = "called"
  /\ call' = [call EXCEPT !.status = "returned",
                          !.result = getFirstGraphemes(call.str, call.count)]
  /\ UNCHANGED <<env, pc, request, options, response, dec, plain>>

NextGraphemes == GetFirstGraphemes

SpecGraphemes == InitGraphemes /\ [][NextGraphemes]_vars

(***************************************************************************)
(* SpecSvg: one call of generateSvgAvatar.                                 *)
(***************************************************************************)
\* & < > " ' a ; and U+0301
XmlChars == {38, 60, 62, 34, 39, 97, 59, 769}

XmlTexts == SeqsUpTo(XmlChars, MaxXmlLen)

InitSvg ==
  /\ env \in [segmenter : BOOLEAN]
  /\ pc = "idle"
  /\ request = IdleRequest
  /\ options = IdleOptions
  /\ response = IdleResponse
  /\ dec = Unused
  /\ plain = Absent
  /\ \E text \in XmlTexts :
       call = [status |-> "called", text |-> text, size |-> DefaultSize,
               result |-> None]

GenerateSvgAvatar ==
  /\ call.status = "called"
  /\ \E color1 \in Colors, color2 \in Colors :
       call' = [call EXCEPT !.status = "returned",
                            !.result = generateSvgAvatar(call.size, call.text, "",
                                                         color1, color2)]
  /\ UNCHANGED <<env, pc, request, options, response, dec, plain>>

NextSvg == GenerateSvgAvatar

SpecSvg == InitSvg /\ [][NextSvg]_vars

(***************************************************************************)
(* Properties                                                              *)
(***************************************************************************)
\* The text of the path after "/avatar/", URL-decoded (the path of the
\* request starts with "/avatar/" and the text decodes).
DecodedPathText == decodeURIComponent(Slice(request.pathname, Len(BASEPATH))).value

UnderBasePath == StartsWith(request.pathname, BASEPATH)

\* The grapheme units of str: the segments of the segmenter, or the code
\* points without one.
Units(str) == IF env.segmenter THEN Segment(str) ELSE Spread(str)

\* The first n whole units of str.
FirstUnits(str, n) == Flatten(SubSeq(Units(str), 1, Min(n, Len(Units(str)))))

\* C1: every request ends with an SVG response, never with an error outcome
\* (no uncaught exception).
C1_NeverFails ==
  pc # "received" => (pc = "responded" /\ response.outcome = "response")

\* C2: size is 60 when s is absent or parses as no integer, and
\* max(1, min(v, 1000)) for every integer value v of s, zero included.
C2_SizeResolution ==
  pc = "responded" =>
    LET v == ParseInt(request.s)
    IN  IF v.nan THEN options.size = 60
        ELSE options.size = Max(1, Min(v.value, 1000))

\* C3: the style embedded in the <svg> tag is the circle style for
\* shape=circle, the rounded style for shape=rounded and empty for every
\* other value of shape or none.
C3_ShapeResolution ==
  pc = "responded" =>
    response.body.shapeStyle =
      IF request.shape = Some("circle") THEN "style=\"border-radius: 50%;\""
      ELSE IF request.shape = Some("rounded") THEN "style=\"border-radius: 10px;\""
      ELSE ""

\* str starts with xn--, in any letter case.
HasXnPrefix(str) ==
  /\ Len(str) >= 4
  /\ str[1] \in {120, 88}
  /\ str[2] \in {110, 78}
  /\ str[3] = 45
  /\ str[4] = 45

\* C4: a path text with the prefix xn-- whose remainder fails to decode is
\* returned unchanged by decodePunycodeIfNeeded and the avatar text is its
\* first 2 graphemes; a text without the prefix is left as it is, whatever
\* the decoder would make of it; the text is URL-decoded before and
\* truncated after.
C4_PunycodeFallback ==
  (pc = "responded" /\ UnderBasePath) =>
    LET t == DecodedPathText
    IN  /\ (HasXnPrefix(t) /\ punycodeDecode(Slice(t, 4)).status = "error") =>
             /\ decodePunycodeIfNeeded(t) = t
             /\ options.text = FirstUnits(t, 2)
        /\ (~HasXnPrefix(t)) =>
             /\ decodePunycodeIfNeeded(t) = t
             /\ options.text = IF t = <<>> THEN <<65>> ELSE FirstUnits(t, 2)

C4_Witness ==
  /\ pc = "responded"
  /\ UnderBasePath
  /\ HasXnPrefix(DecodedPathText)
  /\ Len(DecodedPathText) > 4
  /\ punycodeDecode(Slice(DecodedPathText, 4)).status = "error"
  /\ options.text = SubSeq(DecodedPathText, 1, 2)

\* C5: the text of the options is not empty and has at most 2 graphemes;
\* it is "A" when the path does not start with /avatar/ or the decoded and
\* truncated path text is empty, and the first 2 graphemes of the decoded
\* path text otherwise.
C5_TextResolution ==
  pc = "responded" =>
    /\ options.text # <<>>
    /\ Len(Units(options.text)) <= 2
    /\ IF ~UnderBasePath THEN options.text = <<65>>
       ELSE LET u == decodePunycodeIfNeeded(DecodedPathText)
            IN  IF FirstUnits(u, 2) = <<>> THEN options.text = <<65>>
                ELSE options.text = FirstUnits(u, 2)

C5_Witness ==
  /\ pc = "responded"
  /\ UnderBasePath
  /\ env.segmenter
  /\ Len(decodePunycodeIfNeeded(DecodedPathText)) > Len(options.text)
  /\ Len(options.text) > 2

\* C6: every response has Content-Type image/svg+xml; charset=utf-8, and
\* Cache-Control no-cache exactly when the path is "/", the long-term
\* value for every other path.
C6_ResponseHeaders ==
  response.outcome = "response" =>
    /\ response.contentType = "image/svg+xml; charset=utf-8"
    /\ (response.cacheControl = "no-cache") <=> (request.pathname = <<47>>)
    /\ request.pathname # <<47>> =>
         response.cacheControl = "public, max-age=31536000, immutable"

C6_Witness ==
  /\ response.outcome = "response"
  /\ ~UnderBasePath
  /\ request.pathname # <<47>>
  /\ response.cacheControl = "public, max-age=31536000, immutable"

\* The entity that starts at position j of node, <<>> if there is none.
EntityAt(node, j) ==
  LET entities == {<<38, 97, 109, 112, 59>>, <<38, 108, 116, 59>>, <<38, 103, 116, 59>>,
                   <<38, 113, 117, 111, 116, 59>>, <<38, 97, 112, 111, 115, 59>>}
      here == {e \in entities : j + Len(e) - 1 <= Len(node)
                                /\ SubSeq(node, j, j + Len(e) - 1) = e}
  IN  IF here = {} THEN <<>> ELSE CHOOSE e \in here : TRUE

\* The character an entity stands for.
EntityChar(e) ==
  IF e[2] = 108 THEN 60
  ELSE IF e[2] = 103 THEN 62
  ELSE IF e[2] = 113 THEN 34
  ELSE IF e[3] = 109 THEN 38
  ELSE 39

\* The text an XML parser reads from the content of a text node.
RECURSIVE Unescape(_, _)
Unescape(node, j) ==
  IF j > Len(node) THEN <<>>
  ELSE IF EntityAt(node, j) # <<>>
       THEN <<EntityChar(EntityAt(node, j))>> \o Unescape(node, j + Len(EntityAt(node, j)))
       ELSE <<node[j]>> \o Unescape(node, j + 1)

\* C7: the text node of the markup holds no raw < > " or ', every & in it
\* starts one of the five entities, and reading the entities back gives
\* the text.
C7_TextNodeEscaped ==
  call.status = "returned" =>
    LET node == call.result.textNode
    IN  /\ \A j \in 1 .. Len(node) : node[j] \notin {60, 62, 34, 39}
        /\ \A j \in 1 .. Len(node) : node[j] = 38 => EntityAt(node, j) # <<>>
        /\ Unescape(node, 1) = call.text

C7_Witness ==
  /\ call.status = "returned"
  /\ \E j \in 1 .. Len(call.text) : call.text[j] = 38
  /\ \E j \in 1 .. Len(call.text) : call.text[j] = 39
  /\ \E j \in 1 .. Len(call.text) : call.text[j] = 60

C9_FirstGraphemes ==
  call.status = "returned" =>
    /\ call.result = FirstUnits(call.str, Min(call.count, countGraphemes(call.str)))
    /\ countGraphemes(call.result) <= call.count

C9_Witness ==
  /\ call.status = "returned"
  /\ env.segmenter
  /\ call.count = 2
  /\ countGraphemes(call.str) > 2
  /\ Len(call.result) > 2

\* "/avatar/xn--nxasmq5b" with s=80
ScenarioC10 ==
  [pathname |-> BASEPATH \o <<120, 110, 45, 45, 110, 120, 97, 115, 109, 113, 53, 98>>,
   s |-> Some(<<56, 48>>), shape |-> AbsentName]

\* C10: for /avatar/xn--nxasmq5b with s=80 the label decodes, the text is
\* U+65E5 U+672C and the font size is 36.
C10_Scenario ==
  (request = ScenarioC10 /\ pc # "received") =>
    /\ pc = "responded"
    /\ punycodeDecode(<<110, 120, 97, 115, 109, 113, 53, 98>>).status = "done"
    /\ options.text = <<26085, 26412>>
    /\ response.body.fontSize.num = 36 * response.body.fontSize.den

\* The 0-based index of the last "-" of a label, -1 if it has none.
LastDash(label) ==
  IF \A j \in 1 .. Len(label) : label[j] # 45 THEN -1
  ELSE (CHOOSE j \in 1 .. Len(label) :
          label[j] = 45 /\ \A h \in j + 1 .. Len(label) : label[h] # 45) - 1

\* The characters before the last "-", and the characters after it (the
\* whole label when it has no "-").
BasicPortion(label) == SubSeq(label, 1, LastDash(label))
EncodedPortion(label) == SubSeq(label, LastDash(label) + 2, Len(label))

IsBase36(c) == (c >= 48 /\ c <= 57) \/ (c >= 65 /\ c <= 90) \/ (c >= 97 /\ c <= 122)

\* The value of a base-36 digit: a-z and A-Z are 0..25, 0-9 are 26..35.
Base36Value(c) == IF c <= 57 THEN c - 22 ELSE IF c <= 90 THEN c - 65 ELSE c - 97

\* From the 0-based index on, the label holds only base-36 digits and none
\* of them is below its threshold: the integer that starts there does not
\* end before the input does.
RECURSIVE RunsToEnd(_, _, _, _)
RunsToEnd(label, index, k, bias) ==
  IF index >= Len(label) THEN TRUE
  ELSE /\ IsBase36(label[index + 1])
       /\ Base36Value(label[index + 1]) >=
            (IF k <= bias THEN 1 ELSE IF k >= bias + 26 THEN 26 ELSE k - bias)
       /\ RunsToEnd(label, index + 1, k + 36, bias)

\* C11: punycodeDecode ends in an error, with no string returned, for every
\* label with a code point >= 0x80 in its basic portion, for every label
\* with a character that is no base-36 digit in its encoded portion, and
\* whenever the input ends in the middle of a variable-length integer.
C11_DecodeErrors ==
  [][/\ (/\ dec'.status \in {"done", "error"}
         /\ \/ \E j \in 1 .. Len(BasicPortion(dec'.input)) :
                 BasicPortion(dec'.input)[j] >= 128
            \/ \E j \in 1 .. Len(EncodedPortion(dec'.input)) :
                 ~IsBase36(EncodedPortion(dec'.input)[j]))
        => (dec'.status = "error" /\ dec'.result = <<>>)
     /\ (/\ dec.status = "loop"
         /\ dec.index < Len(dec.input)
         /\ RunsToEnd(dec.input, dec.index, 36, dec.bias))
        => (dec'.status = "error" /\ dec'.result = <<>>)]_vars

C11_Witness ==
  /\ dec.status = "error"
  /\ dec.error = "unexpected end of input"
  /\ Len(dec.inserted) >= 1
  /\ dec.basic > 0


IsAscii(str) == \A j \in 1 .. Len(str) : str[j] < 128

EndsWithDash(label) == label # <<>> /\ label[Len(label)] = 45

\* The decoder has copied the basic portion and decoded no integer yet.
BasicCopied == dec.status = "loop" /\ dec.inserted = <<>>

Returned == dec.status \in {"done", "error"}

RECURSIVE ClaimedLoop(_, _)
ClaimedLoop(delta, k) ==
  IF delta > 455 THEN ClaimedLoop(delta \div 35, k + 36)
  ELSE k + ((36 * delta) \div (delta + 38))

ClaimedBias(delta, first) ==
  ClaimedLoop(IF first THEN delta \div 700 ELSE delta \div 2, 0)

\* The decoder has made an insertion and has not thrown.
Inserted == dec.status \in {"loop", "done"} /\ dec.inserted # <<>>

LastInserted == dec.inserted[Len(dec.inserted)]

\* The damp branch is taken at the first insertion and at no other.
DampOnce == \A j \in 1 .. Len(dec.inserted) : dec.inserted[j].first <=> (j = 1)

\* C13 as claimed: after each insertion the bias is the delta of the
\* insertion divided by 700 (first adaptation) or halved (later ones), then
\* scaled by the loop, with nothing in between; the damp branch is taken
\* once, at the first insertion.
C13_BiasAdaptation ==
  Inserted =>
    /\ dec.bias = ClaimedBias(LastInserted.delta, Len(dec.inserted) = 1)
    /\ DampOnce

\* C13 amended: between the division by 700 or 2 and the loop, delta grows
\* by floor(delta / numPoints), numPoints being the output length after the
\* insertion (the adaptation of RFC 3492, section 6.1).
C13_BiasAdaptationAmended ==
  Inserted =>
    /\ dec.bias = RefAdapt(LastInserted.delta, LastInserted.len + 1, Len(dec.inserted) = 1)
    /\ DampOnce

C13_Witness ==
  /\ Inserted
  /\ Len(dec.inserted) >= 2
  /\ dec.inserted[1].delta >= 700
  /\ (LastInserted.delta \div 2) \div (LastInserted.len + 1) > 0
  /\ dec.bias # ClaimedBias(LastInserted.delta, FALSE)


\* C14: at every insertion the index is within 0 .. (output length before
\* it), the inserted code point is at least 128 and not below the one
\* inserted before; on a successful decode the output buffer holds the
\* basic prefix length plus the number of decoded integers, and its
\* characters below 0x80 are the basic prefix in its order.
C14_InsertionInvariant ==
  /\ dec.status # "unused" =>
       \A j \in 1 .. Len(dec.inserted) :
         /\ dec.inserted[j].at >= 0
         /\ dec.inserted[j].at <= dec.inserted[j].len
         /\ dec.inserted[j].len = Len(BasicPortion(dec.input)) + j - 1
         /\ dec.inserted[j].n >= 128
         /\ j > 1 => dec.inserted[j].n >= dec.inserted[j - 1].n
  /\ dec.status = "done" =>
       /\ Len(dec.output) = Len(BasicPortion(dec.input)) + Len(dec.inserted)
       /\ SelectSeq(dec.output, LAMBDA c : c < 128) = BasicPortion(dec.input)
       /\ \A j \in 1 .. Len(dec.inserted) :
            \E h \in 1 .. Len(dec.output) : dec.output[h] = dec.inserted[j].n

C14_Witness ==
  /\ dec.status = "done"
  /\ Len(BasicPortion(dec.input)) >= 1
  /\ Len(dec.inserted) >= 2
  /\ LastInserted.at > 0
  /\ LastInserted.at < LastInserted.len
  /\ LastInserted.n > dec.inserted[1].n

====
